---- MODULE Spec2Model ----
(***************************************************************************)
(* Connectivity / tunnel supervision of src/modules/connectivity_module.py *)
(*                                                                         *)
(* Caller threads run enable_data_source / disable_data_source, the daemon *)
(* thread runs monitor_tunnel_health, and the environment kills forwarding *)
(* tasks.  Every step of a thread is one access to shared state: the       *)
(* registry active_tunnels (guarded by tunnel_lock), the descriptor files  *)
(* under TUNNELS_DIR, the profile files under PROFILES_DIR and the         *)
(* forwarding tasks themselves.                                            *)
(*                                                                         *)
(* Library behaviour the module relies on, taken as the environment:       *)
(*   - tunnel.is_alive reads whether the forwarding task is running;       *)
(*   - tunnel.start() cannot bring a task up on a local port that is bound *)
(*     (by another running task or by a foreign process);                  *)
(*   - tunnel.start() takes longer than one tick of datetime.now().        *)
(***************************************************************************)
EXTENDS Integers, Sequences, FiniteSets, TLC

\* ------------------------------------------------------------------ bounds
\* concurrent runs: NumCallers caller threads make MaxCalls calls between them;
\* sequential runs: one caller makes MaxSeqCalls calls one after the other
NumCallers == 2
MaxCalls == 2
MaxSeqCalls == 4

\* ------------------------------------------------------------ source data
\* SHARED_DATA_SOURCES, flattened over the cloud providers
TunnelTypes == {"postgresql", "mysql", "synapse"}
CloudTypes == {"s3", "bigquery"}

SHARED_DATA_SOURCES ==
  [ x \in {"aws-postgres", "aws-mysql", "aws-s3", "gcp-bigquery", "gcp-postgres", "azure-synapse"} |->
      CASE x = "aws-postgres"  -> [type |-> "postgresql", local_port |-> 5432, target_port |-> 5432]
        [] x = "aws-mysql"     -> [type |-> "mysql",      local_port |-> 3306, target_port |-> 3306]
        [] x = "aws-s3"        -> [type |-> "s3",         local_port |-> 0,    target_port |-> 0]
        [] x = "gcp-bigquery"  -> [type |-> "bigquery",   local_port |-> 0,    target_port |-> 0]
        [] x = "gcp-postgres"  -> [type |-> "postgresql", local_port |-> 5433, target_port |-> 5432]
        [] x = "azure-synapse" -> [type |-> "synapse",    local_port |-> 1433, target_port |-> 1433] ]

KnownSources == DOMAIN SHARED_DATA_SOURCES

\* the identifiers the callers pass in: a tunnel-backed source, a cloud
\* service source and an identifier that is not in the catalog
Requests == {"aws-postgres", "aws-s3", "no-such-source"}

Files == Requests

IsTunnelBacked(s) == s \in KnownSources /\ SHARED_DATA_SOURCES[s].type \in TunnelTypes

Callers == 1..NumCallers
Free == 0
Mon == NumCallers + 1

\* ------------------------------------------------------------------ state
VARIABLES
  active_tunnels,  \* the registry: insertion-ordered dict, a sequence of [id, h]
  tunnel_lock,     \* holder of tunnel_lock: Free, a caller or Mon
  tunnels,         \* the forwarding tasks ever started: [ds, port, st, by, born, reg]
  tunnel_file,     \* TUNNELS_DIR/<id>.json  : [st, port, created]
  profile_file,    \* PROFILES_DIR/<id>.yaml : [st, catalog]
  mode,            \* "concurrent" or "sequential" run
  foreign_ports,   \* local ports bound by processes other than this one
  now,             \* datetime.now()
  boot,            \* history: datetime.now() when the running process started (0: the first process)
  pc, op, src, ret,  \* per caller: position, operation, argument, return site of is_data_source_connected
  tun,             \* per caller: the local variable tunnel (0: none)
  info,            \* per caller: the local tunnel_info / connection_info being built
  ncalls,          \* per caller: calls made so far
  result,          \* per caller: what the call returned, while pc is "done"
  at_call,         \* history, per caller: the tunnel of the source when the call began
  last,            \* history, per caller: what its previous call returned (sequential runs)
  ever_enabled,    \* history, per source: enable_data_source was called for it
  preflight,       \* history, per caller: the steps create_ssh_tunnel took in this call
  mpc, mlist,      \* monitor: position, inactive_tunnels still to process
  mseen,           \* history: the registered tasks a scan found not alive [once, twice],
                   \*          and whether the last cycle ended in the except clause [failed]
  base_port,       \* _get_next_available_port: its argument
  bind_fails,      \* _get_next_available_port: the ports on which s.bind raises OSError
  port_ret         \* _get_next_available_port: what the call did, [kind, port]

vars == <<active_tunnels, tunnel_lock, tunnels, tunnel_file, profile_file, mode,
          foreign_ports, now, boot, pc, op, src, ret, tun, info, ncalls, result, at_call, last,
          ever_enabled, preflight, mpc, mlist, mseen, base_port, bind_fails, port_ret>>

NoFile == [st |-> "absent", port |-> 0, created |-> 0]

\* a connection-url: prefix, host, port, suffix
NoUrl == <<"", "", 0, "">>
NoCatalog == [connector |-> "none", url |-> NoUrl, user |-> "none", password |-> "none"]
NoProfile == [st |-> "absent", catalog |-> NoCatalog]

\* catalog_config of create_starburst_connection_profile with the host left out
\* of the postgresql connection-url
catalog_config_nohost(type, local_port) ==
  CASE type = "postgresql" ->
         [connector |-> "postgresql",
          url |-> <<"jdbc:postgresql://", "", local_port, "/postgres">>,
          user |-> "starburst_user", password |-> "${ENV:POSTGRES_PASSWORD}"]
    [] type = "mysql" ->
         [connector |-> "mysql",
          url |-> <<"jdbc:mysql://", "localhost", local_port, "/mysql">>,
          user |-> "starburst_user", password |-> "${ENV:MYSQL_PASSWORD}"]
    [] type = "synapse" ->
         [connector |-> "sqlserver",
          url |-> <<"jdbc:sqlserver://", "localhost", local_port, ";database=master">>,
          user |-> "starburst_user", password |-> "${ENV:SYNAPSE_PASSWORD}"]
    [] type = "s3" -> [NoCatalog EXCEPT !.connector = "hive"]
    [] type = "bigquery" -> [NoCatalog EXCEPT !.connector = "bigquery"]

\* catalog_config of create_starburst_connection_profile (database types) and
\* of create_cloud_service_profile (cloud types, of which only connector.name
\* is kept); the connection-url is f"<prefix>localhost:{local_port}<suffix>"
catalog_config(type, local_port) ==
  CASE type = "postgresql" ->
         [connector |-> "postgresql",
          url |-> <<"jdbc:postgresql://", "localhost", local_port, "/postgres">>,
          user |-> "starburst_user", password |-> "${ENV:POSTGRES_PASSWORD}"]
    [] type = "mysql" ->
         [connector |-> "mysql",
          url |-> <<"jdbc:mysql://", "localhost", local_port, "/mysql">>,
          user |-> "starburst_user", password |-> "${ENV:MYSQL_PASSWORD}"]
    [] type = "synapse" ->
         [connector |-> "sqlserver",
          url |-> <<"jdbc:sqlserver://", "localhost", local_port, ";database=master">>,
          user |-> "starburst_user", password |-> "${ENV:SYNAPSE_PASSWORD}"]
    [] type = "s3" -> [NoCatalog EXCEPT !.connector = "hive"]
    [] type = "bigquery" -> [NoCatalog EXCEPT !.connector = "bigquery"]
NoInfo == [port |-> 0, created |-> 0, status |-> "none", endpoint |-> "none"]
NoResult == [op |-> "none", src |-> "none", kind |-> "none", stage |-> "none", status |-> "none",
             endpoint |-> "none", port |-> 0, created |-> 0, h |-> 0]

\* ------------------------------------------------------- dict operations
Keys(d) == {d[i].id : i \in 1..Len(d)}

Lookup(d, k) == (CHOOSE i \in 1..Len(d) : d[i].id = k)

\* d[k]
DictGet(d, k) == d[Lookup(d, k)].h

\* del d[k]
DictDel(d, k) == SelectSeq(d, LAMBDA e : e.id # k)

\* d[k] = v as a list append: a second record for a key already present
DictSetAppend(d, k, v) == Append(d, [id |-> k, h |-> v])

\* d[k] = v : an existing key keeps its position, a new key goes last
DictSet(d, k, v) ==
  IF k \in Keys(d)
    THEN [i \in 1..Len(d) |-> IF d[i].id = k THEN [id |-> k, h |-> v] ELSE d[i]]
    ELSE Append(d, [id |-> k, h |-> v])

\* ------------------------------------------------------ forwarding tasks
\* tunnel.is_alive
is_alive(h) == tunnels[h].st = "alive"

BoundPorts == {tunnels[h].port : h \in {x \in 1..Len(tunnels) : tunnels[x].st = "alive"}} \cup foreign_ports

Start(m) ==
  /\ active_tunnels = <<>>
  /\ tunnel_lock = Free
  /\ tunnels = <<>>
  /\ tunnel_file = [f \in Files |-> NoFile]
  /\ profile_file = [f \in Files |-> NoProfile]
  /\ mode = m
  /\ foreign_ports \in SUBSET {SHARED_DATA_SOURCES[s].local_port : s \in {x \in Requests : IsTunnelBacked(x)}}
  /\ now = 1
  /\ boot = 0
  /\ pc = [t \in Callers |-> "idle"]
  /\ op = [t \in Callers |-> "none"]
  /\ src = [t \in Callers |-> "none"]
  /\ ret = [t \in Callers |-> "none"]
  /\ tun = [t \in Callers |-> 0]
  /\ info = [t \in Callers |-> NoInfo]
  /\ ncalls = [t \in Callers |-> 0]
  /\ result = [t \in Callers |-> NoResult]
  /\ at_call = [t \in Callers |-> "none"]
  /\ last = [t \in Callers |-> NoResult]
  /\ ever_enabled = [f \in Files |-> FALSE]
  /\ preflight = [t \in Callers |-> <<>>]
  /\ mpc = "sleep"
  /\ mlist = <<>>
  /\ mseen = [once |-> {}, twice |-> {}, failed |-> FALSE]

\* range(base_port, base_port + 100)
ScanRange == 100

\* return base_port + 1000
FallbackOffset == 1000

\* the default_port values of DATA_SOURCE_TYPES
DefaultPorts == {5432, 3306, 443, 1433}

NoPort == [kind |-> "none", port |-> 0]

\* _get_next_available_port is not running and has not been called
NoPortCall ==
  /\ base_port = 0
  /\ bind_fails = {}
  /\ port_ret = NoPort

Init == Start("concurrent") /\ NoPortCall

InitSeq == Start("sequential") /\ NoPortCall

\* the states in which _get_next_available_port is called: a default port, with
\* the first k ports from it upward taken (k up to the whole scanned range),
\* and possibly a taken port above the first free one and a taken fallback port
InitPorts ==
  /\ Start("ports")
  /\ base_port \in DefaultPorts
  /\ \E k \in 0..ScanRange :
       \E x \in SUBSET {base_port + k + 1, base_port + FallbackOffset} :
         bind_fails = {base_port + i : i \in 0..(k - 1)} \cup x
  /\ port_ret = NoPort

\* ------------------------------------------------- caller-local plumbing
RECURSIVE SumTo(_, _)
SumTo(f, n) == IF n = 0 THEN 0 ELSE f[n] + SumTo(f, n - 1)

\* a caller may make another call; the callers are interchangeable, so caller
\* t+1 makes its first call after caller t
MayCall(t) ==
  /\ pc[t] = "idle"
  /\ IF mode = "sequential"
       THEN t = 1 /\ ncalls[t] < MaxSeqCalls
       ELSE /\ SumTo(ncalls, NumCallers) < MaxCalls
            /\ t > 1 => ncalls[t - 1] > 0

SharedVars == <<active_tunnels, tunnel_lock, tunnels, tunnel_file, profile_file, now>>
PortVars == <<base_port, bind_fails, port_ret>>
EnvVars == <<mode, foreign_ports, boot, PortVars>>
MonVars == <<mpc, mlist, mseen>>
CallerVars == <<pc, op, src, ret, tun, info, ncalls, result, at_call, last, ever_enabled>>

\* move caller t to position p, keeping the other locals
Goto(t, p) ==
  /\ pc' = [pc EXCEPT ![t] = p]
  /\ UNCHANGED <<op, src, ret, tun, info, ncalls, result, at_call, last, ever_enabled>>

\* the call of t returns (or raises): kind is what the caller sees
Finish(t, kind, stage, inf) ==
  /\ pc' = [pc EXCEPT ![t] = "done"]
  /\ result' = [result EXCEPT ![t] =
        [op |-> op[t], src |-> src[t], kind |-> kind, stage |-> stage, status |-> inf.status,
         endpoint |-> inf.endpoint, port |-> inf.port, created |-> inf.created, h |-> tun[t]]]
  /\ UNCHANGED <<op, src, ret, tun, info, ncalls, at_call, last, ever_enabled>>

\* the caller takes the returned value and is ready for its next call
Return(t) ==
  /\ pc[t] = "done"
  /\ pc' = [pc EXCEPT ![t] = "idle"]
  /\ last' = [last EXCEPT ![t] = IF mode = "sequential" THEN result[t] ELSE NoResult]
  /\ result' = [result EXCEPT ![t] = NoResult]
  /\ op' = [op EXCEPT ![t] = "none"]
  /\ src' = [src EXCEPT ![t] = "none"]
  /\ ret' = [ret EXCEPT ![t] = "none"]
  /\ tun' = [tun EXCEPT ![t] = 0]
  /\ info' = [info EXCEPT ![t] = NoInfo]
  /\ at_call' = [at_call EXCEPT ![t] = "none"]
  /\ preflight' = [preflight EXCEPT ![t] = <<>>]
  /\ UNCHANGED <<ncalls, ever_enabled>>
  /\ UNCHANGED <<SharedVars, EnvVars, MonVars>>

\* the tunnel of source s as a call finds it:
\*   "live"   the registry holds a record whose forwarding task runs
\*   "dead"   the registry holds a record whose forwarding task does not run
\*   "gone"   no record, a tunnel of s was registered earlier and no task of s runs
\*   "never"  otherwise
TunnelState(s) ==
  IF s \in Keys(active_tunnels)
    THEN IF is_alive(DictGet(active_tunnels, s)) THEN "live" ELSE "dead"
    ELSE IF /\ \E h \in 1..Len(tunnels) : tunnels[h].ds = s /\ tunnels[h].reg
            /\ \A h \in 1..Len(tunnels) : tunnels[h].ds = s => tunnels[h].st # "alive"
           THEN "gone" ELSE "never"

\* ------------------------------------------------ is_data_source_connected
\* what the caller of get_connection_info sees: enable_data_source hands the
\* dict on as its "already connected" answer, a direct caller gets the dict
InfoKind(t) == IF op[t] = "enable" THEN "already" ELSE "info"

\* the value v of is_data_source_connected goes back to the call site ret[t]
ICReturn(t, v) ==
  CASE ret[t] = "en_chk" ->
         \* enable_data_source: already connected -> get_connection_info, whose
         \* first act is the status call of is_data_source_connected
         IF v
           THEN /\ pc' = [pc EXCEPT ![t] = "ic_desc"]
                /\ ret' = [ret EXCEPT ![t] = "gi_status"]
                /\ UNCHANGED <<op, src, tun, info, ncalls, result, at_call, last, ever_enabled>>
           ELSE Goto(t, IF SHARED_DATA_SOURCES[src[t]].type \in TunnelTypes THEN "cs_start" ELSE "pf_open")
    [] ret[t] = "dis_chk" ->
         IF v THEN Goto(t, "st_lock")
              ELSE Finish(t, "notconnected", "check", NoInfo)
    [] ret[t] = "ia_chk" ->
         \* a direct call: the value goes to the caller
         Finish(t, IF v THEN "true" ELSE "false", "check", NoInfo)
    [] ret[t] = "gi_status" ->
         LET st == IF v THEN "connected" ELSE "disconnected" IN
         IF SHARED_DATA_SOURCES[src[t]].type \in TunnelTypes
           THEN /\ pc' = [pc EXCEPT ![t] = "gi_exists"]
                /\ info' = [info EXCEPT ![t].status = st]
                /\ UNCHANGED <<op, src, ret, tun, ncalls, result, at_call, last, ever_enabled>>
           ELSE Finish(t, InfoKind(t), "info", [NoInfo EXCEPT !.status = st])

\* tunnel_file.exists()
ic_desc(t) ==
  /\ pc[t] = "ic_desc"
  /\ Goto(t, IF tunnel_file[src[t]].st # "absent" THEN "ic_reg" ELSE "ic_prof")
  /\ UNCHANGED <<SharedVars, EnvVars, preflight, MonVars>>

\* the registry branch with the liveness test inverted
ic_reg_inverted(t) ==
  /\ pc[t] = "ic_reg"
  /\ tunnel_lock = Free
  /\ IF src[t] \in Keys(active_tunnels)
       THEN ICReturn(t, ~is_alive(DictGet(active_tunnels, src[t])))
       ELSE Goto(t, "ic_prof")
  /\ UNCHANGED <<SharedVars, EnvVars, preflight, MonVars>>

\* with tunnel_lock: if data_source_id in active_tunnels: return tunnel.is_alive
\* (the block only reads, so taking and releasing the lock is one step)
ic_reg(t) ==
  /\ pc[t] = "ic_reg"
  /\ tunnel_lock = Free
  /\ IF src[t] \in Keys(active_tunnels)
       THEN ICReturn(t, is_alive(DictGet(active_tunnels, src[t])))
       ELSE Goto(t, "ic_prof")
  /\ UNCHANGED <<SharedVars, EnvVars, preflight, MonVars>>

\* the profile test answering True whether or not the file exists
ic_prof_true(t) ==
  /\ pc[t] = "ic_prof"
  /\ ICReturn(t, TRUE)
  /\ UNCHANGED <<SharedVars, EnvVars, preflight, MonVars>>

\* return profile_file.exists()
ic_prof(t) ==
  /\ pc[t] = "ic_prof"
  /\ ICReturn(t, profile_file[src[t]].st # "absent")
  /\ UNCHANGED <<SharedVars, EnvVars, preflight, MonVars>>

is_data_source_connected(t) == ic_desc(t) \/ ic_reg(t) \/ ic_prof(t)

\* a caller asks is_data_source_connected(data_source_id) directly
call_is_data_source_connected(t) ==
  /\ MayCall(t)
  /\ \E s \in Requests :
       /\ ncalls' = [ncalls EXCEPT ![t] = @ + 1]
       /\ pc' = [pc EXCEPT ![t] = "ic_desc"]
       /\ op' = [op EXCEPT ![t] = "isactive"]
       /\ src' = [src EXCEPT ![t] = s]
       /\ ret' = [ret EXCEPT ![t] = "ia_chk"]
       /\ at_call' = [at_call EXCEPT ![t] = TunnelState(s)]
  /\ UNCHANGED <<tun, info, result, last, ever_enabled>>
  /\ UNCHANGED <<SharedVars, EnvVars, preflight, MonVars>>

\* ---------------------------------------------------- get_connection_info
\* if tunnel_file.exists()
gi_exists(t) ==
  /\ pc[t] = "gi_exists"
  /\ IF tunnel_file[src[t]].st # "absent"
       THEN Goto(t, "gi_read")
       ELSE Finish(t, InfoKind(t), "info",
                   [info[t] EXCEPT !.endpoint = "not connected",
                                   !.port = SHARED_DATA_SOURCES[src[t]].local_port])
  /\ UNCHANGED <<SharedVars, EnvVars, preflight, MonVars>>

\* open(tunnel_file, 'r'); json.load(f); connection_info.update({...})
\* (the tunnel_status entry, a further is_data_source_connected call that only
\* fills that entry, is not part of the returned value modelled here)
gi_read(t) ==
  /\ pc[t] = "gi_read"
  /\ IF tunnel_file[src[t]].st = "full"
       THEN Finish(t, InfoKind(t), "info",
                   [info[t] EXCEPT !.endpoint = "localhost",
                                   !.port = tunnel_file[src[t]].port,
                                   !.created = tunnel_file[src[t]].created])
       ELSE \* FileNotFoundError, or JSONDecodeError on a truncated file
            Finish(t, "raised", "info", NoInfo)
  /\ UNCHANGED <<SharedVars, EnvVars, preflight, MonVars>>

get_connection_info(t) == gi_exists(t) \/ gi_read(t)

\* a caller asks get_connection_info(data_source_id) directly: the source is
\* looked up (unknown: return None), then the status entry is computed
call_get_connection_info(t) ==
  /\ MayCall(t)
  /\ \E s \in Requests :
       /\ ncalls' = [ncalls EXCEPT ![t] = @ + 1]
       /\ op' = [op EXCEPT ![t] = "info"]
       /\ src' = [src EXCEPT ![t] = s]
       /\ at_call' = [at_call EXCEPT ![t] = TunnelState(s)]
       /\ IF s \notin KnownSources
            THEN /\ pc' = [pc EXCEPT ![t] = "done"]
                 /\ result' = [result EXCEPT ![t] =
                       [NoResult EXCEPT !.op = "info", !.src = s, !.kind = "none", !.stage = "unknown"]]
                 /\ UNCHANGED ret
            ELSE /\ pc' = [pc EXCEPT ![t] = "ic_desc"]
                 /\ ret' = [ret EXCEPT ![t] = "gi_status"]
                 /\ UNCHANGED result
  /\ UNCHANGED <<tun, info, last, ever_enabled>>
  /\ UNCHANGED <<SharedVars, EnvVars, preflight, MonVars>>

\* --------------------------------------------------------- create_ssh_tunnel
\* get_ssh_key_path(), test_bastion_connectivity(), SSHTunnelForwarder(...),
\* tunnel.start() and the read of tunnel.is_alive.  None of the steps before
\* start touches shared state, so they are taken together:
\*   "nokey"    the key file is missing: return None
\*   "bastion"  the bastion probe failed: return None
\*   "raise"    start raised: the except clause returns None
\*   "down"     the task is not alive after start: tunnel.stop(); return None
\*   "alive"    the task runs and holds local_port: tunnel_info is built
\* the bastion probed before the key file is looked for
preflight_steps_probe_first(outcome) ==
  CASE outcome = "nokey" -> <<"bastion", "key">>
    [] outcome = "bastion" -> <<"bastion">>
    [] OTHER -> <<"bastion", "key", "open">>

\* the steps create_ssh_tunnel has taken when it ends with the given outcome:
\* "key" get_ssh_key_path(), "bastion" test_bastion_connectivity(), "open"
\* SSHTunnelForwarder(...) and tunnel.start(); each return None ends the list
preflight_steps(outcome) ==
  CASE outcome = "nokey" -> <<"key">>
    [] outcome = "bastion" -> <<"key", "bastion">>
    [] OTHER -> <<"key", "bastion", "open">>

\* the bastion probe made after the forwarding task was started
cs_start_probe_late(t) ==
  /\ pc[t] = "cs_start"
  /\ LET port == SHARED_DATA_SOURCES[src[t]].local_port IN
     \E outcome \in {"nokey", "bastion", "raise", "down", "alive"} :
       /\ preflight' = [preflight EXCEPT ![t] = preflight_steps(outcome)]
       /\ outcome \in {"alive", "bastion"} => port \notin BoundPorts
       /\ CASE outcome = "nokey" ->
                 /\ Finish(t, "failed", "credentials", NoInfo)
                 /\ UNCHANGED <<tunnels, now>>
            [] outcome = "bastion" ->
                 /\ tunnels' = Append(tunnels, [ds |-> src[t], port |-> port, st |-> "alive",
                                                by |-> t, born |-> now + 1, reg |-> FALSE])
                 /\ now' = now + 1
                 /\ Finish(t, "failed", "bastion", NoInfo)
            [] outcome = "raise" ->
                 /\ Finish(t, "failed", "exception", NoInfo)
                 /\ UNCHANGED <<tunnels, now>>
            [] outcome = "down" ->
                 /\ tunnels' = Append(tunnels, [ds |-> src[t], port |-> port, st |-> "stopped",
                                                by |-> t, born |-> now + 1, reg |-> FALSE])
                 /\ now' = now + 1
                 /\ Finish(t, "failed", "notalive", NoInfo)
            [] outcome = "alive" ->
                 /\ tunnels' = Append(tunnels, [ds |-> src[t], port |-> port, st |-> "alive",
                                                by |-> t, born |-> now + 1, reg |-> FALSE])
                 /\ now' = now + 1
                 /\ pc' = [pc EXCEPT ![t] = "cs_write"]
                 /\ tun' = [tun EXCEPT ![t] = Len(tunnels) + 1]
                 /\ info' = [info EXCEPT ![t] = [port |-> port, created |-> now + 1,
                                                 status |-> "active", endpoint |-> "none"]]
                 /\ UNCHANGED <<op, src, ret, ncalls, result, at_call, last, ever_enabled>>
  /\ UNCHANGED <<active_tunnels, tunnel_lock, tunnel_file, profile_file, EnvVars, MonVars>>

\* create_ssh_tunnel up to the read of tunnel.is_alive (see above)
cs_start(t) ==
  /\ pc[t] = "cs_start"
  /\ LET port == SHARED_DATA_SOURCES[src[t]].local_port IN
     \E outcome \in {"nokey", "bastion", "raise", "down", "alive"} :
       /\ preflight' = [preflight EXCEPT ![t] = preflight_steps(outcome)]
       /\ outcome = "alive" => port \notin BoundPorts
       /\ CASE outcome = "nokey" ->
                 /\ Finish(t, "failed", "credentials", NoInfo)
                 /\ UNCHANGED <<tunnels, now>>
            [] outcome = "bastion" ->
                 /\ Finish(t, "failed", "bastion", NoInfo)
                 /\ UNCHANGED <<tunnels, now>>
            [] outcome = "raise" ->
                 /\ Finish(t, "failed", "exception", NoInfo)
                 /\ UNCHANGED <<tunnels, now>>
            [] outcome = "down" ->
                 /\ tunnels' = Append(tunnels, [ds |-> src[t], port |-> port, st |-> "stopped",
                                                by |-> t, born |-> now + 1, reg |-> FALSE])
                 /\ now' = now + 1
                 /\ Finish(t, "failed", "notalive", NoInfo)
            [] outcome = "alive" ->
                 /\ tunnels' = Append(tunnels, [ds |-> src[t], port |-> port, st |-> "alive",
                                                by |-> t, born |-> now + 1, reg |-> FALSE])
                 /\ now' = now + 1
                 /\ pc' = [pc EXCEPT ![t] = "cs_write"]
                 /\ tun' = [tun EXCEPT ![t] = Len(tunnels) + 1]
                 /\ info' = [info EXCEPT ![t] = [port |-> port, created |-> now + 1,
                                                 status |-> "active", endpoint |-> "none"]]
                 /\ UNCHANGED <<op, src, ret, ncalls, result, at_call, last, ever_enabled>>
  /\ UNCHANGED <<active_tunnels, tunnel_lock, tunnel_file, profile_file, EnvVars, MonVars>>

\* with open(tunnel_file, 'w') as f: json.dump(tunnel_info, f, indent=2)
\*   "ok"    the descriptor is written
\*   "open"  open raised: the file is as before, the except clause returns None
\*   "dump"  the write raised after open truncated the file: return None
cs_write(t) ==
  /\ pc[t] = "cs_write"
  /\ \E outcome \in {"ok", "open", "dump"} :
       CASE outcome = "ok" ->
              /\ tunnel_file' = [tunnel_file EXCEPT ![src[t]] =
                    [st |-> "full", port |-> info[t].port, created |-> info[t].created]]
              /\ Goto(t, "cs_reg")
         [] outcome = "open" ->
              /\ Finish(t, "failed", "exception", NoInfo)
              /\ UNCHANGED tunnel_file
         [] outcome = "dump" ->
              /\ tunnel_file' = [tunnel_file EXCEPT ![src[t]] = [NoFile EXCEPT !.st = "partial"]]
              /\ Finish(t, "failed", "exception", NoInfo)
  /\ UNCHANGED <<active_tunnels, tunnel_lock, tunnels, profile_file, now, EnvVars, preflight, MonVars>>

\* the registration without taking tunnel_lock
cs_reg_nolock(t) ==
  /\ pc[t] = "cs_reg"
  /\ active_tunnels' = DictSet(active_tunnels, src[t], tun[t])
  /\ tunnels' = [tunnels EXCEPT ![tun[t]].reg = TRUE]
  /\ Goto(t, "pf_open")
  /\ UNCHANGED <<tunnel_lock, tunnel_file, profile_file, now, EnvVars, preflight, MonVars>>

\* with tunnel_lock: active_tunnels[data_source_id] = tunnel
\* return tunnel_info
cs_reg(t) ==
  /\ pc[t] = "cs_reg"
  /\ tunnel_lock = Free
  /\ active_tunnels' = DictSet(active_tunnels, src[t], tun[t])
  /\ tunnels' = [tunnels EXCEPT ![tun[t]].reg = TRUE]
  /\ Goto(t, "pf_open")
  /\ UNCHANGED <<tunnel_lock, tunnel_file, profile_file, now, EnvVars, preflight, MonVars>>

create_ssh_tunnel(t) == cs_start(t) \/ cs_write(t) \/ cs_reg(t)

\* ------- create_starburst_connection_profile / create_cloud_service_profile
\* with open(profile_file, 'w') as f:   (creates or truncates the file)
pf_open(t) ==
  /\ pc[t] = "pf_open"
  /\ profile_file' = [profile_file EXCEPT ![src[t]] = [NoProfile EXCEPT !.st = "partial"]]
  /\ Goto(t, "pf_dump")
  /\ UNCHANGED <<active_tunnels, tunnel_lock, tunnels, tunnel_file, now, EnvVars, preflight, MonVars>>

\* yaml.dump({catalog_<id>: catalog_config}, f); return {...}
pf_dump(t) ==
  /\ pc[t] = "pf_dump"
  /\ profile_file' = [profile_file EXCEPT ![src[t]] =
        [st |-> "full",
         catalog |-> catalog_config(SHARED_DATA_SOURCES[src[t]].type, info[t].port)]]
  /\ Finish(t, "connected", "done", [info[t] EXCEPT !.status = "connected"])
  /\ UNCHANGED <<active_tunnels, tunnel_lock, tunnels, tunnel_file, now, EnvVars, preflight, MonVars>>

create_connection_profile(t) == pf_open(t) \/ pf_dump(t)

\* -------------------------------------------------------- enable_data_source
\* the call: look the source up, then "if is_data_source_connected(...)"
enable_data_source(t) ==
  /\ MayCall(t)
  /\ \E s \in Requests :
       /\ ncalls' = [ncalls EXCEPT ![t] = @ + 1]
       /\ op' = [op EXCEPT ![t] = "enable"]
       /\ src' = [src EXCEPT ![t] = s]
       /\ at_call' = [at_call EXCEPT ![t] = TunnelState(s)]
       /\ ever_enabled' = [ever_enabled EXCEPT ![s] = TRUE]
       /\ IF s \notin KnownSources
            THEN \* Unknown data source: return None
                 /\ pc' = [pc EXCEPT ![t] = "done"]
                 /\ result' = [result EXCEPT ![t] =
                       [NoResult EXCEPT !.op = "enable", !.src = s, !.kind = "failed", !.stage = "unknown"]]
                 /\ UNCHANGED ret
            ELSE /\ pc' = [pc EXCEPT ![t] = "ic_desc"]
                 /\ ret' = [ret EXCEPT ![t] = "en_chk"]
                 /\ UNCHANGED result
  /\ UNCHANGED <<tun, info, last>>
  /\ UNCHANGED <<SharedVars, EnvVars, preflight, MonVars>>

\* ----------------------------------------------------------- stop_ssh_tunnel
\* with tunnel_lock:
st_lock(t) ==
  /\ pc[t] = "st_lock"
  /\ tunnel_lock = Free
  /\ tunnel_lock' = t
  /\ Goto(t, "st_body")
  /\ UNCHANGED <<active_tunnels, tunnels, tunnel_file, profile_file, now, EnvVars, preflight, MonVars>>

\* the record deleted without stopping the task
st_body_nostop(t) ==
  /\ pc[t] = "st_body"
  /\ tunnel_lock' = Free
  /\ IF src[t] \in Keys(active_tunnels)
       THEN /\ active_tunnels' = DictDel(active_tunnels, src[t])
            /\ pc' = [pc EXCEPT ![t] = "st_exists"]
            /\ tun' = [tun EXCEPT ![t] = DictGet(active_tunnels, src[t])]
            /\ UNCHANGED <<op, src, ret, info, ncalls, result, at_call, last, ever_enabled>>
       ELSE /\ Goto(t, "st_exists")
            /\ UNCHANGED active_tunnels
  /\ UNCHANGED <<tunnels, tunnel_file, profile_file, now, EnvVars, preflight, MonVars>>

\* if data_source_id in active_tunnels: tunnel.stop(); del active_tunnels[...]
\* tunnel.stop() may raise: the with block releases the lock, the del is skipped
\* and the error leaves disable_data_source; the task may or may not be down
st_body(t) ==
  /\ pc[t] = "st_body"
  /\ tunnel_lock' = Free
  /\ IF src[t] \in Keys(active_tunnels)
       THEN LET h == DictGet(active_tunnels, src[t]) IN
            \E ok \in BOOLEAN :
              IF ok
                THEN /\ tunnels' = [tunnels EXCEPT ![h].st = "stopped"]
                     /\ active_tunnels' = DictDel(active_tunnels, src[t])
                     /\ pc' = [pc EXCEPT ![t] = "st_exists"]
                     /\ tun' = [tun EXCEPT ![t] = h]
                     /\ UNCHANGED <<op, src, ret, info, ncalls, result, at_call, last, ever_enabled>>
                ELSE /\ \E st \in {tunnels[h].st, "stopped"} :
                          tunnels' = [tunnels EXCEPT ![h].st = st]
                     /\ Finish(t, "raised", "stop", NoInfo)
                     /\ UNCHANGED active_tunnels
       ELSE /\ Goto(t, "st_exists")
            /\ UNCHANGED <<active_tunnels, tunnels>>
  /\ UNCHANGED <<tunnel_file, profile_file, now, EnvVars, preflight, MonVars>>

\* if tunnel_file.exists():
st_exists(t) ==
  /\ pc[t] = "st_exists"
  /\ Goto(t, IF tunnel_file[src[t]].st # "absent" THEN "st_unlink" ELSE "dp_exists")
  /\ UNCHANGED <<SharedVars, EnvVars, preflight, MonVars>>

\* tunnel_file.unlink()   (FileNotFoundError when the file has gone meanwhile)
st_unlink(t) ==
  /\ pc[t] = "st_unlink"
  /\ IF tunnel_file[src[t]].st # "absent"
       THEN /\ tunnel_file' = [tunnel_file EXCEPT ![src[t]] = NoFile]
            /\ Goto(t, "dp_exists")
       ELSE /\ Finish(t, "raised", "unlink", NoInfo)
            /\ UNCHANGED tunnel_file
  /\ UNCHANGED <<active_tunnels, tunnel_lock, tunnels, profile_file, now, EnvVars, preflight, MonVars>>

stop_ssh_tunnel(t) == st_lock(t) \/ st_body(t) \/ st_exists(t) \/ st_unlink(t)

\* ------------------------------------------------------- disable_data_source
\* the call: "if not is_data_source_connected(data_source_id): return"
disable_data_source(t) ==
  /\ MayCall(t)
  /\ \E s \in Requests :
       /\ ncalls' = [ncalls EXCEPT ![t] = @ + 1]
       /\ pc' = [pc EXCEPT ![t] = "ic_desc"]
       /\ op' = [op EXCEPT ![t] = "disable"]
       /\ src' = [src EXCEPT ![t] = s]
       /\ ret' = [ret EXCEPT ![t] = "dis_chk"]
       /\ at_call' = [at_call EXCEPT ![t] = TunnelState(s)]
  /\ UNCHANGED <<tun, info, result, last, ever_enabled>>
  /\ UNCHANGED <<SharedVars, EnvVars, preflight, MonVars>>

\* profile_file = PROFILES_DIR / ...; if profile_file.exists():
dp_exists(t) ==
  /\ pc[t] = "dp_exists"
  /\ IF profile_file[src[t]].st # "absent"
       THEN Goto(t, "dp_unlink")
       ELSE Finish(t, "disconnected", "done", NoInfo)
  /\ UNCHANGED <<SharedVars, EnvVars, preflight, MonVars>>

\* profile_file.unlink(); "Disconnected from ..."
dp_unlink(t) ==
  /\ pc[t] = "dp_unlink"
  /\ IF profile_file[src[t]].st # "absent"
       THEN /\ profile_file' = [profile_file EXCEPT ![src[t]] = NoProfile]
            /\ Finish(t, "disconnected", "done", NoInfo)
       ELSE /\ Finish(t, "raised", "unlink", NoInfo)
            /\ UNCHANGED profile_file
  /\ UNCHANGED <<active_tunnels, tunnel_lock, tunnels, tunnel_file, now, EnvVars, preflight, MonVars>>

remove_connection_profile(t) == dp_exists(t) \/ dp_unlink(t)

\* ---------------------------------- cleanup_inactive_tunnels, monitor loop
\* the cycle ending with tunnel_lock still held
EndCycle_keeps_lock ==
  /\ tunnel_lock' = Mon
  /\ mpc' = "sleep"
  /\ mlist' = <<>>

\* the cycle is over (normally or by an exception caught in monitor_tunnel_health):
\* the with block releases tunnel_lock and the thread sleeps
EndCycle ==
  /\ tunnel_lock' = Free
  /\ mpc' = "sleep"
  /\ mlist' = <<>>

\* with tunnel_lock: inactive_tunnels = [id for id, tunnel in active_tunnels.items()
\*                                       if not tunnel.is_alive]
mon_scan ==
  /\ mpc = "sleep"
  /\ tunnel_lock = Free
  /\ LET inactive == SelectSeq(active_tunnels, LAMBDA e : ~is_alive(e.h))
         ids == [i \in 1..Len(inactive) |-> inactive[i].id]
         found == {inactive[i].h : i \in 1..Len(inactive)} IN
     IF ids = <<>>
       THEN \* nothing to clean up: the lock is released and the thread sleeps
            /\ mseen' = [mseen EXCEPT !.failed = FALSE]
            /\ UNCHANGED <<tunnel_lock, mpc, mlist>>
       ELSE /\ tunnel_lock' = Mon
            /\ mpc' = "remove"
            /\ mlist' = ids
            /\ mseen' = [once |-> mseen.once \cup found,
                         twice |-> mseen.twice \cup (found \cap mseen.once),
                         failed |-> FALSE]
  /\ UNCHANGED <<active_tunnels, tunnels, tunnel_file, profile_file, now, EnvVars, preflight>>
  /\ UNCHANGED CallerVars

\* del active_tunnels[data_source_id]; if tunnel_file.exists():
mon_remove ==
  /\ mpc = "remove"
  /\ LET s == Head(mlist) IN
     /\ active_tunnels' = DictDel(active_tunnels, s)
     /\ IF tunnel_file[s].st # "absent"
          THEN /\ mpc' = "unlink"
               /\ UNCHANGED <<tunnel_lock, mlist>>
          ELSE IF Len(mlist) > 1
            THEN /\ mlist' = Tail(mlist)
                 /\ UNCHANGED <<tunnel_lock, mpc>>
            ELSE EndCycle
     /\ mseen' = IF s \in Keys(active_tunnels)
                    THEN [mseen EXCEPT !.once = @ \ {DictGet(active_tunnels, s)},
                                       !.twice = @ \ {DictGet(active_tunnels, s)}]
                    ELSE mseen
  /\ UNCHANGED <<tunnels, tunnel_file, profile_file, now, EnvVars, preflight>>
  /\ UNCHANGED CallerVars

\* tunnel_file.unlink()   (FileNotFoundError ends the cycle in the except clause)
mon_unlink ==
  /\ mpc = "unlink"
  /\ LET s == Head(mlist) IN
     IF tunnel_file[s].st # "absent"
       THEN /\ tunnel_file' = [tunnel_file EXCEPT ![s] = NoFile]
            /\ IF Len(mlist) > 1
                 THEN /\ mlist' = Tail(mlist)
                      /\ mpc' = "remove"
                      /\ UNCHANGED tunnel_lock
                 ELSE EndCycle
            /\ UNCHANGED mseen
       ELSE /\ EndCycle
            /\ mseen' = [mseen EXCEPT !.failed = TRUE]
            /\ UNCHANGED tunnel_file
  /\ UNCHANGED <<active_tunnels, tunnels, profile_file, now, EnvVars, preflight>>
  /\ UNCHANGED CallerVars

cleanup_inactive_tunnels == mon_scan \/ mon_remove \/ mon_unlink

\* tunnel_file.unlink() raises and the thread ends with the exception: no
\* except clause around cleanup_inactive_tunnels()
mon_unlink_raises_exits ==
  /\ mpc = "unlink"
  /\ tunnel_lock' = Free
  /\ mpc' = "exited"
  /\ mlist' = <<>>
  /\ mseen' = [mseen EXCEPT !.failed = TRUE]
  /\ UNCHANGED <<active_tunnels, tunnels, tunnel_file, profile_file, now, EnvVars, preflight>>
  /\ UNCHANGED CallerVars

\* tunnel_file.unlink() raises an OSError other than a missing file (the
\* directory is not writable, say): the file stays, the with block releases
\* the lock, and the except clause of monitor_tunnel_health prints the error
\* and sleeps before the next cycle
mon_unlink_raises ==
  /\ mpc = "unlink"
  /\ EndCycle
  /\ mseen' = [mseen EXCEPT !.failed = TRUE]
  /\ UNCHANGED <<active_tunnels, tunnels, tunnel_file, profile_file, now, EnvVars, preflight>>
  /\ UNCHANGED CallerVars

\* ------------------------------------------------------------- environment
\* the forwarding task h dies (process crash, network drop)
Kill(h) ==
  /\ tunnels[h].st = "alive"
  /\ tunnels' = [tunnels EXCEPT ![h].st = "dead"]
  /\ UNCHANGED <<active_tunnels, tunnel_lock, tunnel_file, profile_file, now, EnvVars, preflight, MonVars>>
  /\ UNCHANGED CallerVars

\* the process exits between two calls and a new one imports the module: the
\* registry and the lock are new objects, the forwarding tasks (threads of the
\* old process) are gone, the descriptor and profile files stay on disk and a
\* new monitor thread starts
Restart ==
  /\ \A t \in Callers : pc[t] = "idle"
  /\ active_tunnels' = <<>>
  /\ tunnel_lock' = Free
  /\ tunnels' = [h \in 1..Len(tunnels) |->
        IF tunnels[h].st = "alive" THEN [tunnels[h] EXCEPT !.st = "dead"] ELSE tunnels[h]]
  /\ boot' = now
  /\ mpc' = "sleep"
  /\ mlist' = <<>>
  /\ mseen' = [once |-> {}, twice |-> {}, failed |-> FALSE]
  /\ last' = [t \in Callers |-> NoResult]
  /\ UNCHANGED <<tunnel_file, profile_file, now, mode, foreign_ports, PortVars>>
  /\ UNCHANGED <<pc, op, src, ret, tun, info, ncalls, result, at_call, ever_enabled, preflight>>

\* ------------------------------- shared_data_module._get_next_available_port
\* for port in range(port, stop): return the first port on which bind succeeds;
\* 0 when the loop ends without a return
RECURSIVE scan_ports(_, _, _)
scan_ports(port, stop, taken) ==
  IF port >= stop THEN 0
  ELSE IF port \notin taken THEN port
  ELSE scan_ports(port + 1, stop, taken)

\* _get_next_available_port(base_port)
get_next_available_port(base, taken) ==
  LET found == scan_ports(base, base + ScanRange, taken)
  IN IF found # 0 THEN found ELSE base + FallbackOffset

\* a call of _get_next_available_port(base_port): it always returns an int
call_get_next_available_port ==
  /\ mode = "ports"
  /\ port_ret = NoPort
  /\ port_ret' = [kind |-> "port", port |-> get_next_available_port(base_port, bind_fails)]
  /\ UNCHANGED <<SharedVars, CallerVars, MonVars, mode, foreign_ports, boot, base_port, bind_fails,
                  preflight>>

\* ----------------------------------------------------------- specification
Next ==
  \/ \E t \in Callers :
       \/ enable_data_source(t)
       \/ disable_data_source(t)
       \/ call_is_data_source_connected(t)
       \/ call_get_connection_info(t)
       \/ is_data_source_connected(t)
       \/ get_connection_info(t)
       \/ create_ssh_tunnel(t)
       \/ create_connection_profile(t)
       \/ stop_ssh_tunnel(t)
       \/ remove_connection_profile(t)
       \/ Return(t)
  \/ cleanup_inactive_tunnels
  \/ \E h \in 1..Len(tunnels) : Kill(h)

Spec == Init /\ [][Next]_vars

SeqSpec == InitSeq /\ [][Next]_vars

\* sequential runs in which the process may be restarted between calls
NextRestart == Next \/ Restart

RestartSpec == InitSeq /\ [][NextRestart]_vars

\* concurrent runs in which the descriptor unlink of the monitor may fail, with
\* every thread that can take a step eventually taking one: the steps inside a
\* call of each caller, and the monitor loop
InCall(t) ==
  \/ is_data_source_connected(t)
  \/ get_connection_info(t)
  \/ create_ssh_tunnel(t)
  \/ create_connection_profile(t)
  \/ stop_ssh_tunnel(t)
  \/ remove_connection_profile(t)

monitor_tunnel_health == cleanup_inactive_tunnels \/ mon_unlink_raises

NextFair == Next \/ mon_unlink_raises

FairSpec ==
  /\ Init
  /\ [][NextFair]_vars
  /\ WF_vars(monitor_tunnel_health)
  /\ \A t \in Callers : WF_vars(InCall(t))

\* calls of the port selection of shared_data_module
NextPorts == call_get_next_available_port

PortSpec == InitPorts /\ [][NextPorts]_vars

\* ------------------------------------------------------------------ claims
\* the registry holds a record for source s and it is task h
Holds(s, h) ==
  /\ s \in Keys(active_tunnels)
  /\ DictGet(active_tunnels, s) = h

\* C1: at every moment the registry holds at most one record per source
\* identifier, also while enable calls for the same source run concurrently.
C1_OneRecordPerSource ==
  \A i, j \in 1..Len(active_tunnels) :
    active_tunnels[i].id = active_tunnels[j].id => i = j

\* two callers have each registered a task of the same source and the registry
\* holds a record for it
C1_Witness ==
  \E h1, h2 \in 1..Len(tunnels) :
    /\ h1 # h2
    /\ tunnels[h1].ds = tunnels[h2].ds
    /\ tunnels[h1].by # tunnels[h2].by
    /\ tunnels[h1].reg /\ tunnels[h2].reg
    /\ tunnels[h1].ds \in Keys(active_tunnels)

\* C2: of two racing enable calls for the same source the loser returns the
\* winner's record: when an enable call of caller t returns (key and bastion
\* being available) while the registry holds a running task of the source that
\* another caller opened, t gets the existing connection with that task's port,
\* opens no task and does not fail.
C2_LoserGetsWinnersRecord ==
  [][\A t \in Callers : \A h \in 1..Len(tunnels') :
       ( /\ pc[t] # "done" /\ pc'[t] = "done"
         /\ result'[t].op = "enable"
         /\ result'[t].stage \notin {"credentials", "bastion"}
         /\ tunnels'[h].ds = result'[t].src
         /\ tunnels'[h].by # t
         /\ tunnels'[h].st = "alive"
         /\ result'[t].src \in Keys(active_tunnels')
         /\ DictGet(active_tunnels', result'[t].src) = h )
       => ( /\ result'[t].kind = "already"
            /\ result'[t].port = tunnels'[h].port
            /\ result'[t].h = 0 )]_vars

\* the positions of a caller at which it only reads shared state
ReadOnly == {"ic_desc", "ic_reg", "ic_prof", "gi_exists", "gi_read", "done"}

\* C3: enable called twice in immediate succession for a tunnel-backed source,
\* the task the first call opened still registered and running: the second call
\* only reads (registry, descriptor and profile stay as they are), opens no
\* forwarding task and returns the existing connection with the local port the
\* first call returned.
C3_EnableIdempotent ==
  \A t \in Callers :
    ( /\ op[t] = "enable"
      /\ last[t].op = "enable"
      /\ last[t].src = src[t]
      /\ last[t].kind = "connected"
      /\ IsTunnelBacked(src[t])
      /\ Holds(src[t], last[t].h)
      /\ is_alive(last[t].h) )
    => ( /\ pc[t] \in ReadOnly
         /\ tun[t] = 0
         /\ pc[t] = "done" => ( /\ result[t].kind = "already"
                                /\ result[t].port = last[t].port
                                /\ result[t].h = 0 ) )

\* a second enable has returned the connection its predecessor created
C3_Witness ==
  \E t \in Callers :
    /\ pc[t] = "done"
    /\ result[t].op = "enable"
    /\ result[t].kind = "already"
    /\ IsTunnelBacked(result[t].src)
    /\ last[t].kind = "connected"
    /\ last[t].src = result[t].src
    /\ Holds(result[t].src, last[t].h)
    /\ is_alive(last[t].h)

\* C4: an enable call for a source that was enabled before and whose forwarding
\* task is dead (its record still registered, or already removed by the
\* monitor) does not return "already connected".
C4_StaleNotReused ==
  \A t \in Callers :
    ( /\ pc[t] = "done"
      /\ result[t].op = "enable"
      /\ at_call[t] \in {"dead", "gone"} )
    => result[t].kind # "already"

\* C5: when enable returns a failure, there is no registry entry, no descriptor
\* file and no profile file for the source.
C5_FailedEnableLeavesNothing ==
  \A t \in Callers :
    ( /\ pc[t] = "done"
      /\ result[t].op = "enable"
      /\ result[t].kind = "failed" )
    => ( /\ result[t].src \notin Keys(active_tunnels)
         /\ tunnel_file[result[t].src].st = "absent"
         /\ profile_file[result[t].src].st = "absent" )

\* C6: when enable returns a failure, no forwarding task that the caller
\* started for the source and did not register is still running.
C6_FailedEnableStopsTask ==
  \A t \in Callers : \A h \in 1..Len(tunnels) :
    ( /\ pc[t] = "done"
      /\ result[t].op = "enable"
      /\ result[t].kind = "failed"
      /\ tunnels[h].by = t
      /\ tunnels[h].ds = result[t].src
      /\ ~tunnels[h].reg )
    => ~is_alive(h)

\* C7: a disable call that began while the registry held a record for the
\* source (its task running or not) and that returns normally has removed the
\* record, the descriptor file and the profile file.
C7_DisableRemovesRecord ==
  \A t \in Callers :
    ( /\ pc[t] = "done"
      /\ result[t].op = "disable"
      /\ result[t].kind # "raised"
      /\ at_call[t] \in {"live", "dead"} )
    => ( /\ result[t].kind = "disconnected"
         /\ result[t].src \notin Keys(active_tunnels)
         /\ tunnel_file[result[t].src].st = "absent"
         /\ profile_file[result[t].src].st = "absent" )

\* C8: a disable call for a source that enable was never called for only reads
\* whether the descriptor and the profile exist, so it changes no registry
\* entry and no file, and it returns normally ("not connected").
C8_DisableNeverEnabled ==
  \A t \in Callers :
    ( /\ op[t] = "disable"
      /\ ~ever_enabled[src[t]] )
    => ( /\ pc[t] \in {"ic_desc", "ic_prof", "done"}
         /\ pc[t] = "done" => result[t].kind = "notconnected"
         /\ src[t] \notin Keys(active_tunnels)
         /\ tunnel_file[src[t]] = NoFile
         /\ profile_file[src[t]] = NoProfile )

\* such a disable call has returned while another source is connected
C8_Witness ==
  \E t \in Callers :
    /\ pc[t] = "done"
    /\ result[t].op = "disable"
    /\ ~ever_enabled[result[t].src]
    /\ \E f \in Files : profile_file[f].st = "full"

\* the previous call of t was a disable of s that stopped task h
DisabledBefore(t, s, h) ==
  /\ last[t].op = "disable"
  /\ last[t].src = s
  /\ last[t].kind = "disconnected"
  /\ last[t].h = h
  /\ h # 0

\* C9: when a disable call that stopped the registered task of a source
\* returns, the task is stopped, the local port of the source is not bound and
\* the registry does not hold the task; the enable call that follows
\* immediately finds the port free at start, does not reuse the stopped task
\* but starts a later-born one with a later creation time, and the stopped task
\* is not put back into the registry.
C9_DisableReleasesPort ==
  \A t \in Callers :
    /\ ( /\ pc[t] = "done"
         /\ result[t].op = "disable"
         /\ result[t].kind = "disconnected"
         /\ result[t].h # 0 )
       => ( /\ tunnels[result[t].h].st = "stopped"
            /\ tunnels[result[t].h].port \notin BoundPorts
            /\ ~Holds(result[t].src, result[t].h) )
    /\ \A h \in 1..Len(tunnels) :
         ( op[t] = "enable" /\ DisabledBefore(t, src[t], h) )
         => ( /\ ~Holds(src[t], h)
              /\ pc[t] \notin {"gi_exists", "gi_read"}
              /\ pc[t] = "cs_start" => tunnels[h].port \notin BoundPorts
              /\ tun[t] # 0 => (tun[t] # h /\ tunnels[tun[t]].born > tunnels[h].born)
              /\ pc[t] = "done" =>
                   ( /\ result[t].kind \in {"connected", "failed"}
                     /\ result[t].kind = "connected" =>
                          ( /\ result[t].created > tunnels[h].born
                            /\ result[t].h # h
                            /\ result[t].port = tunnels[h].port ) ) )

\* an enable has reconnected the source right after a disable stopped its task
C9_Witness ==
  \E t \in Callers :
    /\ pc[t] = "done"
    /\ result[t].op = "enable"
    /\ result[t].kind = "connected"
    /\ DisabledBefore(t, result[t].src, last[t].h)
    /\ Holds(result[t].src, result[t].h)

\* C11: after an enable of a tunnel-backed source succeeded, with its task
\* still registered and running, the caller's next call observes it:
\* is_data_source_connected returns True, and get_connection_info reports
\* status connected, endpoint localhost and the local port of the descriptor
\* the enable recorded, whatever the monitor did in between.
C11_EnableThenObserve ==
  \A t \in Callers :
    ( /\ pc[t] = "done"
      /\ result[t].op \in {"isactive", "info"}
      /\ last[t].op = "enable"
      /\ last[t].src = result[t].src
      /\ last[t].kind = "connected"
      /\ IsTunnelBacked(result[t].src)
      /\ Holds(result[t].src, last[t].h)
      /\ is_alive(last[t].h) )
    => ( /\ result[t].op = "isactive" => result[t].kind = "true"
         /\ result[t].op = "info" =>
              ( /\ result[t].kind = "info"
                /\ result[t].status = "connected"
                /\ result[t].endpoint = "localhost"
                /\ result[t].port = last[t].port ) )

\* C12: the step in which enable returns the bastion failure is the pre-flight
\* of create_ssh_tunnel, reached straight from the connection test: the caller
\* has started no forwarding task, and the step starts none and writes no
\* descriptor file.
C12_BastionFailureOpensNothing ==
  [][\A t \in Callers :
       ( /\ pc[t] # "done" /\ pc'[t] = "done"
         /\ result'[t].op = "enable"
         /\ result'[t].stage = "bastion" )
       => ( /\ result'[t].kind = "failed"
            /\ pc[t] = "cs_start"
            /\ tun[t] = 0 /\ result'[t].h = 0
            /\ tunnels' = tunnels
            /\ tunnel_file' = tunnel_file
            /\ active_tunnels' = active_tunnels )]_vars

\* an enable of a tunnel-backed source has returned the bastion failure
C12_Witness ==
  \E t \in Callers :
    /\ pc[t] = "done"
    /\ result[t].op = "enable"
    /\ result[t].stage = "bastion"
    /\ IsTunnelBacked(result[t].src)

\* connector.name of the catalog of a database type
ConnectorOf(type) == IF type = "synapse" THEN "sqlserver" ELSE type

\* C13: when enable_data_source of a tunnel-backed source returns "connected",
\* the profile file of the source is completely written, its connection-url
\* points at localhost and the local port of the forwarding task the call
\* started, and connector, user and password are those of the source's type;
\* for every tunnel-backed source of the catalog the template of its type
\* carries the port it is given.
C13_ProfileCarriesTunnelPort ==
  /\ \A t \in Callers :
       ( /\ pc[t] = "done"
         /\ result[t].op = "enable"
         /\ result[t].kind = "connected"
         /\ IsTunnelBacked(result[t].src) )
       => LET p == profile_file[result[t].src]
              type == SHARED_DATA_SOURCES[result[t].src].type
          IN /\ result[t].h \in 1..Len(tunnels)
             /\ p.st = "full"
             /\ p.catalog.connector = ConnectorOf(type)
             /\ p.catalog.url[2] = "localhost"
             /\ p.catalog.url[3] = tunnels[result[t].h].port
             /\ p.catalog.url[3] = result[t].port
             /\ p.catalog.user = "starburst_user"
  /\ \A s \in KnownSources :
       IsTunnelBacked(s) =>
         LET c == catalog_config(SHARED_DATA_SOURCES[s].type, SHARED_DATA_SOURCES[s].local_port)
         IN /\ c.connector = ConnectorOf(SHARED_DATA_SOURCES[s].type)
            /\ c.url[2] = "localhost"
            /\ c.url[3] = SHARED_DATA_SOURCES[s].local_port

\* an enable of a tunnel-backed source has returned "connected" and its
\* profile is on disk
C13_Witness ==
  \E t \in Callers :
    /\ pc[t] = "done"
    /\ result[t].op = "enable"
    /\ result[t].kind = "connected"
    /\ IsTunnelBacked(result[t].src)
    /\ profile_file[result[t].src].st = "full"
    /\ profile_file[result[t].src].catalog.url[3] = 5432

\* C14: when the configured local port of a tunnel-backed source is bound by
\* another process and the key and the bastion are fine, enable_data_source
\* returns "connected" with a free port above the configured one, and that
\* port is the one in the descriptor and in the profile.
C14_OccupiedPortMovesUp ==
  \A t \in Callers :
    ( /\ pc[t] = "done"
      /\ result[t].op = "enable"
      /\ IsTunnelBacked(result[t].src)
      /\ SHARED_DATA_SOURCES[result[t].src].local_port \in foreign_ports
      /\ result[t].stage \notin {"credentials", "bastion"} )
    => ( /\ result[t].kind = "connected"
         /\ result[t].port > SHARED_DATA_SOURCES[result[t].src].local_port
         /\ result[t].port \notin foreign_ports
         /\ tunnel_file[result[t].src].port = result[t].port
         /\ profile_file[result[t].src].catalog.url[3] = result[t].port )

\* the ports of the scanned range on which bind succeeds
FreeInRange == {p \in base_port..(base_port + ScanRange - 1) : p \notin bind_fails}

\* C15: a call of the port selection returns the lowest port of the scanned
\* range on which bind succeeds; when bind fails on every port of the range it
\* fails with NoPortAvailable instead of returning a port.
C15_LowestFreeOrFail ==
  port_ret.kind # "none" =>
    IF FreeInRange # {}
      THEN /\ port_ret.kind = "port"
           /\ port_ret.port \in FreeInRange
           /\ \A q \in FreeInRange : port_ret.port <= q
      ELSE port_ret.kind = "NoPortAvailable"

\* C16: a direct is_data_source_connected call only reads; for a tunnel-backed
\* source it returns True only when, at its last read, the registry holds a
\* record of the source whose forwarding task runs; for a cloud-service source
\* it returns True exactly when the profile file exists.
C16_IsActiveMeansRunning ==
  [][\A t \in Callers :
       /\ ( op[t] = "isactive" /\ pc[t] # pc'[t] )
          => ( /\ pc[t] \in ReadOnly
               /\ <<active_tunnels, tunnels, tunnel_file, profile_file>>' =
                  <<active_tunnels, tunnels, tunnel_file, profile_file>> )
       /\ ( /\ pc[t] # "done" /\ pc'[t] = "done"
            /\ result'[t].op = "isactive"
            /\ result'[t].src \in KnownSources )
          => IF IsTunnelBacked(result'[t].src)
               THEN result'[t].kind = "true" => TunnelState(result'[t].src) = "live"
               ELSE result'[t].kind = "true" <=> profile_file[result'[t].src].st # "absent"]_vars

\* a task of source s was started by the process that is running now
StartedSinceBoot(s) ==
  \E h \in 1..Len(tunnels) : tunnels[h].ds = s /\ tunnels[h].born > boot

\* C17: after a restart of the process, as long as the new process has started
\* no forwarding task for a tunnel-backed source, is_data_source_connected does
\* not return True for it and enable does not answer "already connected".
C17_RestartRevalidates ==
  \A t \in Callers :
    ( /\ pc[t] = "done"
      /\ boot > 0
      /\ IsTunnelBacked(result[t].src)
      /\ ~StartedSinceBoot(result[t].src) )
    => ( /\ result[t].op = "isactive" => result[t].kind # "true"
         /\ result[t].op = "enable" => result[t].kind # "already" )

\* C18: when tunnel.stop() fails inside a disable call, the call still removes
\* the registry record, the descriptor and the profile and returns normally.
C18_StopFailureStillCleans ==
  \A t \in Callers :
    ( /\ pc[t] = "done"
      /\ result[t].op = "disable"
      /\ result[t].stage = "stop" )
    => ( /\ result[t].kind = "disconnected"
         /\ result[t].src \notin Keys(active_tunnels)
         /\ tunnel_file[result[t].src].st = "absent"
         /\ profile_file[result[t].src].st = "absent" )

\* no call is running and the monitor sleeps
Quiescent ==
  /\ \A t \in Callers : pc[t] \in {"idle", "done"}
  /\ mpc = "sleep"

\* C19: whenever no operation is in progress, a tunnel-backed source that has a
\* profile file has a record in the registry.
C19_ProfileImpliesRecord ==
  Quiescent =>
    \A f \in Files :
      (IsTunnelBacked(f) /\ profile_file[f].st # "absent") => f \in Keys(active_tunnels)

\* C20: tunnel_lock is not held across a blocking call: the monitor does not
\* hold it when it is about to delete a descriptor file, and a disable call
\* does not hold it when it is about to stop a forwarding task.
C20_LockNotHeldWhileBlocking ==
  /\ mpc = "unlink" => tunnel_lock # Mon
  /\ \A t \in Callers :
       (pc[t] = "st_body" /\ src[t] \in Keys(active_tunnels)) => tunnel_lock # t

\* the step is one of the monitor thread
MonStep == <<mpc, mlist>>' # <<mpc, mlist>>

\* the descriptor of source s is the one written for a task that runs
DescriptorOfLiveTask(s) ==
  \E h \in 1..Len(tunnels) :
    /\ tunnels[h].ds = s
    /\ is_alive(h)
    /\ tunnel_file[s].st = "full"
    /\ tunnel_file[s].created = tunnels[h].born

\* C21: a monitor cycle removes a registry record only of a task that does not
\* run, and deletes a descriptor only if it is not the descriptor written for a
\* task that runs (the one a concurrent enable has just established).
C21_MonitorSparesNewTunnel ==
  [][MonStep =>
       /\ active_tunnels' # active_tunnels =>
            ~is_alive(DictGet(active_tunnels, Head(mlist)))
       /\ tunnel_file' # tunnel_file =>
            ~DescriptorOfLiveTask(Head(mlist))]_vars

\* C23: every step that reads or writes active_tunnels is taken by the thread
\* that holds tunnel_lock, or takes the free lock for the length of the step:
\* no thread touches the registry while another one holds the lock.
C23_RegistryUnderLock ==
  [][/\ \A t \in Callers :
          ( /\ pc'[t] # pc[t]
            /\ \/ active_tunnels' # active_tunnels
               \/ pc[t] \in {"ic_reg", "cs_reg", "st_body"} )
          => tunnel_lock \in {Free, t}
     /\ ( /\ MonStep
          /\ \/ active_tunnels' # active_tunnels
             \/ mpc \in {"sleep", "remove"} )
        => tunnel_lock \in {Free, Mon}]_vars

\* a caller is about to register its task while the monitor holds the lock
C23_Witness ==
  \E t \in Callers :
    /\ pc[t] = "cs_reg"
    /\ tunnel_lock = Mon
    /\ src[t] \in Keys(active_tunnels)

\* C25: a completely written profile stays complete until it is deleted: no
\* step leaves an empty or partly written file in the place of a complete one.
C25_ProfileReplacedAtomically ==
  [][\A f \in Files :
       profile_file[f].st = "full" => profile_file'[f].st \in {"full", "absent"}]_vars

\* C27: the process ends only when the monitor is between two cycles: a cycle
\* in flight is finished first.
C27_ShutdownFinishesCycle ==
  [][boot' # boot => mpc = "sleep"]_vars

\* C28: whenever no call and no monitor cycle is in progress, a descriptor file
\* exists for a source exactly when the registry holds a record for it (runs in
\* which a descriptor write broke off midway are left aside).
C28_DescriptorIffRecord ==
  (Quiescent /\ \A f \in Files : tunnel_file[f].st # "partial") =>
    \A f \in Files : tunnel_file[f].st = "full" <=> f \in Keys(active_tunnels)

\* C29: a record whose forwarding task runs stays in the registry, with the
\* same task, over every step that leaves the task running.
C29_LiveRecordKept ==
  [][\A i \in 1..Len(active_tunnels) :
       ( /\ is_alive(active_tunnels[i].h)
         /\ tunnels'[active_tunnels[i].h].st = "alive" )
       => /\ active_tunnels[i].id \in Keys(active_tunnels')
          /\ DictGet(active_tunnels', active_tunnels[i].id) = active_tunnels[i].h]_vars

C22_RemovedAfterTwoFailures ==
  (mpc = "remove" /\ Head(mlist) \in Keys(active_tunnels)) =>
    DictGet(active_tunnels, Head(mlist)) \in mseen.twice

\* C26: a monitor cycle that ends with an error changes nothing of any caller,
\* releases the lock and leaves the monitor in its loop: after every failed
\* cycle the monitor begins another cycle.
C26_MonitorSurvivesErrors ==
  /\ [][(mseen'.failed /\ ~mseen.failed) =>
          /\ UNCHANGED <<pc, op, src, ret, tun, info, ncalls, result>>
          /\ tunnel_lock' = Free
          /\ mpc' = "sleep"]_vars
  /\ mseen.failed ~> ~mseen.failed

\* a monitor cycle has ended with an error while a call is in progress
C26_Witness ==
  /\ mseen.failed
  /\ mpc = "sleep"
  /\ \E t \in Callers : pc[t] \notin {"idle", "done"}

\* C30: a thread holds tunnel_lock only inside a with block (a caller inside
\* stop_ssh_tunnel's, the monitor inside its cycle), never at a place where it
\* would acquire the lock, and leaves the block with the lock released also
\* when the block raises; every call that has begun returns and every monitor
\* cycle that has begun ends.
C30_NoDeadlock ==
  /\ [](/\ \A t \in Callers : tunnel_lock = t <=> pc[t] = "st_body"
        /\ tunnel_lock = Mon <=> mpc \in {"remove", "unlink"})
  /\ \A t \in Callers : (pc[t] \notin {"idle", "done"}) ~> (pc[t] \in {"idle", "done"})
  /\ (mpc # "sleep") ~> (mpc = "sleep")

\* a caller is waiting to take the lock for stop_ssh_tunnel while the monitor
\* holds it
C30_Witness ==
  \E t \in Callers :
    /\ pc[t] = "st_lock"
    /\ tunnel_lock = Mon

====
